---- MODULE Spec2Model ----
(***************************************************************************)
(* The news/price digest bot of src/bot.py: the seen-headline ledger, the  *)
(* quiet gate, the eight source adapters, build_digest, the scheduled and  *)
(* on-demand send paths and the polling loop, as a state machine of the    *)
(* scheduler thread and one webhook request thread.                        *)
(***************************************************************************)
EXTENDS Integers, Sequences, FiniteSets, TLC

(***************************************************************************)
(* Program constants.                                                      *)
(***************************************************************************)
IGAMING_CAP == 10
HTML_CAP == 10
CNBC_ANCHORS == 15
FEED_CAP == 10
ECUADOR_FEED_CAP == 8
ECUADOR_ENOUGH == 5
ECUADOR_FALLBACK_ITEMS == 15
ECUADOR_FALLBACK_CAP == 5
ECUADOR_FEEDS == 10
ECUADOR_FALLBACK_URLS == 7
QUIET_HOURS == 6
DIGEST_HOUR == 9
DIGEST_MINUTE == 0
STARTUP_GUARD_MINUTES == 5
POLL_INTERVAL == 60
HOURLY_THRESHOLD == 3600
MINUTES_PER_HOUR == 60
HOURS_PER_DAY == 24

(***************************************************************************)
(* Strings are sequences of one-character strings.                         *)
(***************************************************************************)
\* The characters used, in code-point order (the order sorted() compares by).
CodePoints ==
    <<" ","(",")","*","-",".","/","0","1","2",":",
      "A","B","C","D","E","F","G","H","I","J","K","L","M",
      "N","O","P","Q","R","S","T","U","V","W","X","Y","Z","[","\\","]","_",
      "a","b","c","d","e","f","g","h","i","j","k","l","m",
      "n","o","p","q","r","s","t","u","v","w","x","y","z">>

Code(c) == CHOOSE i \in 1..Len(CodePoints) : CodePoints[i] = c

\* str.lower() on one character and on a string.
LowerChar(c) ==
    IF Code(c) >= Code("A") /\ Code(c) <= Code("Z")
    THEN CodePoints[Code(c) + (Code("a") - Code("A"))]
    ELSE c

lower(s) == [i \in 1..Len(s) |-> LowerChar(s[i])]

\* `k in s` for strings: k occurs in s as a contiguous substring.
Contains(s, k) ==
    \E i \in 0..(Len(s) - Len(k)) : SubSeq(s, i + 1, i + Len(k)) = k

\* s.startswith(p)
startswith(s, p) == Len(s) >= Len(p) /\ SubSeq(s, 1, Len(p)) = p

\* any(kw in lowered for kw in kws)
any_keyword(lowered, kws) == \E kw \in kws : Contains(lowered, kw)

\* str.strip(): leading and trailing blanks removed.
RECURSIVE lstrip(_)
lstrip(s) == IF s # << >> /\ Head(s) = " " THEN lstrip(Tail(s)) ELSE s

RECURSIVE rstrip(_)
rstrip(s) ==
    IF s # << >> /\ s[Len(s)] = " " THEN rstrip(SubSeq(s, 1, Len(s) - 1)) ELSE s

strip(s) == rstrip(lstrip(s))

\* Python's string order: lexicographic by code point.
RECURSIVE StrLess(_, _)
StrLess(a, b) ==
    IF a = << >> THEN b # << >>
    ELSE IF b = << >> THEN FALSE
    ELSE IF Head(a) = Head(b) THEN StrLess(Tail(a), Tail(b))
    ELSE Code(Head(a)) < Code(Head(b))

Range(seq) == {seq[i] : i \in 1..Len(seq)}

\* sorted(set(headlines))
RECURSIVE sorted(_)
sorted(S) ==
    IF S = {} THEN << >>
    ELSE LET m == CHOOSE x \in S : \A y \in S \ {x} : StrLess(x, y)
         IN  <<m>> \o sorted(S \ {m})

\* [:n]
Take(seq, n) == SubSeq(seq, 1, IF Len(seq) < n THEN Len(seq) ELSE n)

important_keywords ==
    { <<"b","r","e","a","k","i","n","g">>,
      <<"m","a","j","o","r">>,
      <<"l","a","u","n","c","h">>,
      <<"a","c","q","u","i","s","i","t","i","o","n">>,
      <<"m","e","r","g","e","r">>,
      <<"r","e","g","u","l","a","t","i","o","n">>,
      <<"p","a","r","t","n","e","r","s","h","i","p">>,
      <<"e","x","p","a","n","s","i","o","n">>,
      <<"f","u","n","d","i","n","g">>,
      <<"i","n","v","e","s","t","m","e","n","t">>,
      <<"d","e","a","l">>,
      <<"a","n","n","o","u","n","c","e","m","e","n","t">>,
      <<"s","t","r","a","t","e","g","i","c">>,
      <<"m","i","l","e","s","t","o","n","e">>,
      <<"r","e","c","o","r","d">>,
      <<"g","r","o","w","t","h">>,
      <<"n","e","w"," ","m","a","r","k","e","t">> }

keywords ==
    { <<"c","r","y","p","t","o">>,
      <<"b","l","o","c","k","c","h","a","i","n">>,
      <<"b","i","t","c","o","i","n">>,
      <<"e","t","h","e","r","e","u","m">>,
      <<"i","g","a","m","i","n","g">>,
      <<"g","a","m","b","l","i","n","g">>,
      <<"c","a","s","i","n","o">>,
      <<"b","e","t","t","i","n","g">> }

ecuador_fallback_keywords ==
    { <<"e","c","u","a","d","o","r">>,
      <<"m","i","n","i","n","g">>,
      <<"g","o","l","d">>,
      <<"c","o","p","p","e","r">>,
      <<"s","i","l","v","e","r">>,
      <<"m","i","n","e","r","a","l">>,
      <<"e","x","p","l","o","r","a","t","i","o","n">>,
      <<"d","r","i","l","l">>,
      <<"a","s","s","a","y">>,
      <<"r","e","s","o","u","r","c","e">>,
      <<"r","e","s","e","r","v","e">>,
      <<"p","r","o","d","u","c","t","i","o","n">>,
      <<"d","e","v","e","l","o","p","m","e","n","t">>,
      <<"p","e","r","m","i","t">>,
      <<"c","o","n","c","e","s","s","i","o","n">>,
      <<"t","i","t","a","n"," ","m","i","n","e","r","a","l","s">>,
      <<"t","t","t","n","f">> }

ecuador_keywords ==
    { <<"e","c","u","a","d","o","r">>,
      <<"m","i","n","i","n","g">>,
      <<"g","o","l","d">>,
      <<"c","o","p","p","e","r">>,
      <<"s","i","l","v","e","r">>,
      <<"m","i","n","e","r","a","l">>,
      <<"e","x","p","l","o","r","a","t","i","o","n">>,
      <<"d","r","i","l","l">>,
      <<"a","s","s","a","y">>,
      <<"r","e","s","o","u","r","c","e">>,
      <<"r","e","s","e","r","v","e">>,
      <<"p","r","o","d","u","c","t","i","o","n">>,
      <<"d","e","v","e","l","o","p","m","e","n","t">>,
      <<"p","e","r","m","i","t">>,
      <<"c","o","n","c","e","s","s","i","o","n">>,
      <<"t","i","t","a","n"," ","m","i","n","e","r","a","l","s">>,
      <<"t","t","t","n","f">>,
      <<"a","u","s","t","r","a","l","i","a","n"," ","m","i","n","i","n","g">>,
      <<"c","a","n","a","d","i","a","n"," ","m","i","n","i","n","g">> }

CNBC_BASE == <<"h","t","t","p","s",":","/","/","w","w","w",".","c","n","b","c",".","c","o","m">>
CRUNCHBASE_BASE == <<"h","t","t","p","s",":","/","/","n","e","w","s",".","c","r","u","n","c","h","b","a","s","e",".","c","o","m">>
CRYPTOHEADLINES_BASE == <<"h","t","t","p","s",":","/","/","c","r","y","p","t","o","h","e","a","d","l","i","n","e","s",".","c","o","m">>
DEFIANT_BASE == <<"h","t","t","p","s",":","/","/","t","h","e","d","e","f","i","a","n","t",".","i","o">>
HTTP_PREFIX == <<"h","t","t","p">>
WSJ_COM == <<"w","s","j",".","c","o","m">>
ECUADOR == <<"e","c","u","a","d","o","r">>

(***************************************************************************)
(* What a source serves.  A page is the sequence of raw entries one URL    *)
(* yields; an entry's title and link are optional texts: << >> when the    *)
(* element, attribute or key is absent, <<s>> when it is present with text *)
(* s.  A status is the outcome of one request: "ok", "403" (HTTP 403),     *)
(* "error" (another non-2xx answer) or "raise" (the request or the parse   *)
(* raised).                                                                *)
(***************************************************************************)
Text(opt) == IF opt = << >> THEN << >> ELSE opt[1]

NewsItem(source, title, url, emoji) ==
    [source |-> source, title |-> title, url |-> url, emoji |-> emoji]

\* _parse_rss_items: items lacking a title or link element are dropped, the
\* texts are stripped; an empty text is kept.
RECURSIVE parse_rss_items(_)
parse_rss_items(page) ==
    IF page = << >> THEN << >>
    ELSE LET item == Head(page) IN
         IF item.title = << >> \/ item.link = << >>
         THEN parse_rss_items(Tail(page))
         ELSE << [title |-> strip(Text(item.title)), link |-> strip(Text(item.link))] >>
              \o parse_rss_items(Tail(page))

\* The loop of _igaming_fallback over items[:10].
RECURSIVE igaming_fallback_loop(_, _, _)
igaming_fallback_loop(items, news, ledger) ==
    IF items = << >> THEN news
    ELSE LET title == strip(Text(Head(items).title))
             link  == strip(Text(Head(items).link))
         IN  IF title = << >> \/ link = << >>
             THEN igaming_fallback_loop(Tail(items), news, ledger)
             ELSE IF title \in ledger
             THEN igaming_fallback_loop(Tail(items), news, ledger)
             ELSE igaming_fallback_loop(Tail(items),
                      Append(news, NewsItem("iGaming Business", title, link, "newspaper")),
                      ledger)

igaming_fallback(page, status, ledger) ==
    IF status # "ok" THEN << >>
    ELSE igaming_fallback_loop(Take(page, IGAMING_CAP), << >>, ledger)

\* The loop of get_igaming_news over articles[:10].
RECURSIVE igaming_loop(_, _, _)
igaming_loop(articles, news, ledger) ==
    IF articles = << >> THEN news
    ELSE LET title == Head(articles).title
             link  == Head(articles).link
         IN  IF any_keyword(lower(title), important_keywords)
             THEN IF title \in ledger
                  THEN igaming_loop(Tail(articles), news, ledger)
                  ELSE igaming_loop(Tail(articles),
                           Append(news, NewsItem("iGaming Business", title, link, "newspaper")),
                           ledger)
             ELSE igaming_loop(Tail(articles), news, ledger)

\* get_igaming_news: pages[1] is the RSS feed, pages[2] its rss2json mirror.
get_igaming_news(pages, status, ledger) ==
    IF status[1] \in {"403", "raise"}
    THEN igaming_fallback(pages[2], status[2], ledger)
    ELSE IF status[1] # "ok" THEN << >>
    ELSE igaming_loop(Take(parse_rss_items(pages[1]), IGAMING_CAP), << >>, ledger)

\* The loop shared by get_crunchbase_news, get_cryptoheadlines_news and
\* get_defiant_newsletter_news (the three differ in URL, selector and label).
RECURSIVE html_loop(_, _, _, _)
html_loop(anchors, news, ledger, cfg) ==
    IF anchors = << >> THEN news
    ELSE LET title == strip(Text(Head(anchors).title))
             href  == Text(Head(anchors).link)
             link  == IF startswith(href, HTTP_PREFIX) THEN href
                      ELSE IF startswith(href, <<"/">>) THEN cfg.base \o href
                      ELSE cfg.base \o <<"/">> \o href
         IN  IF href = << >> \/ title = << >>
             THEN html_loop(Tail(anchors), news, ledger, cfg)
             ELSE IF any_keyword(lower(title), keywords)
             THEN IF title \in ledger
                  THEN html_loop(Tail(anchors), news, ledger, cfg)
                  ELSE LET more == Append(news, NewsItem(cfg.source, title, link, cfg.emoji))
                       IN  IF Len(more) >= HTML_CAP THEN more
                           ELSE html_loop(Tail(anchors), more, ledger, cfg)
             ELSE IF Len(news) >= HTML_CAP THEN news
             ELSE html_loop(Tail(anchors), news, ledger, cfg)

html_adapter(pages, status, ledger, cfg) ==
    IF status[1] # "ok" THEN << >>
    ELSE html_loop(pages[1], << >>, ledger, cfg)

get_crunchbase_news(pages, status, ledger) ==
    html_adapter(pages, status, ledger,
        [source |-> "Crunchbase News", base |-> CRUNCHBASE_BASE, emoji |-> "crab"])

get_cryptoheadlines_news(pages, status, ledger) ==
    html_adapter(pages, status, ledger,
        [source |-> "CryptoHeadlines", base |-> CRYPTOHEADLINES_BASE, emoji |-> "newspaper"])

get_defiant_newsletter_news(pages, status, ledger) ==
    html_adapter(pages, status, ledger,
        [source |-> "The Defiant Newsletter", base |-> DEFIANT_BASE, emoji |-> "newspaper"])

\* The loop of get_cnbc_crypto_news over anchors[:15].
RECURSIVE cnbc_loop(_, _, _)
cnbc_loop(anchors, news, ledger) ==
    IF anchors = << >> THEN news
    ELSE LET title == strip(Text(Head(anchors).title))
             href  == Text(Head(anchors).link)
             link  == IF startswith(href, <<"/">>) THEN CNBC_BASE \o href ELSE href
         IN  IF href = << >>
             THEN cnbc_loop(Tail(anchors), news, ledger)
             ELSE IF title \in ledger
             THEN cnbc_loop(Tail(anchors), news, ledger)
             ELSE cnbc_loop(Tail(anchors),
                      Append(news, NewsItem("CNBC Crypto World", title, link, "moneybag")),
                      ledger)

get_cnbc_crypto_news(pages, status, ledger) ==
    IF status[1] # "ok" THEN << >>
    ELSE cnbc_loop(Take(pages[1], CNBC_ANCHORS), << >>, ledger)

\* The relevance test of the feed adapters.
feed_match(kind, title, link) ==
    CASE kind = "wsj"    -> any_keyword(lower(title), keywords) /\ Contains(link, WSJ_COM)
      [] kind = "medium" -> any_keyword(lower(title), keywords)
      [] OTHER           -> Contains(lower(title), ECUADOR)
                            /\ any_keyword(lower(title), ecuador_keywords)

\* The inner loop of get_wsj_news, get_medium_news and get_ecuador_mining_news
\* over one feed's entries.  An entry without title or link raises: the loop is
\* left with the news appended so far.
RECURSIVE feed_loop(_, _, _, _)
feed_loop(entries, news, ledger, cfg) ==
    IF entries = << >> THEN [news |-> news, raised |-> FALSE]
    ELSE IF Head(entries).title = << >> \/ Head(entries).link = << >>
    THEN [news |-> news, raised |-> TRUE]
    ELSE LET title == strip(Text(Head(entries).title))
             link  == strip(Text(Head(entries).link))
             hit   == feed_match(cfg.kind, title, link)
             more  == IF hit THEN Append(news, NewsItem(cfg.source, title, link, cfg.emoji))
                      ELSE news
         IN  IF hit /\ title \in ledger
             THEN feed_loop(Tail(entries), news, ledger, cfg)
             ELSE IF Len(more) >= cfg.cap THEN [news |-> more, raised |-> FALSE]
             ELSE feed_loop(Tail(entries), more, ledger, cfg)

\* The outer loop over the feeds i..n of pages.  cfg.enough is the length at
\* which the loop stops after a feed (0: it never does).
RECURSIVE feeds_loop(_, _, _, _, _, _, _)
feeds_loop(pages, status, i, n, news, ledger, cfg) ==
    IF i > n THEN news
    ELSE IF status[i] = "raise"
    THEN feeds_loop(pages, status, i + 1, n, news, ledger, cfg)
    ELSE LET r == feed_loop(IF status[i] = "ok" THEN pages[i] ELSE << >>, news, ledger, cfg)
         IN  IF ~r.raised /\ cfg.enough > 0 /\ Len(r.news) >= cfg.enough
             THEN r.news
             ELSE feeds_loop(pages, status, i + 1, n, r.news, ledger, cfg)

get_wsj_news(pages, status, ledger) ==
    feeds_loop(pages, status, 1, 2, << >>, ledger,
        [kind |-> "wsj", source |-> "WSJ (via Google News)", emoji |-> "newspaper",
         cap |-> FEED_CAP, enough |-> 0])

get_medium_news(pages, status, ledger) ==
    feeds_loop(pages, status, 1, 2, << >>, ledger,
        [kind |-> "medium", source |-> "Medium", emoji |-> "writing",
         cap |-> FEED_CAP, enough |-> 0])

\* The inner loop of _ecuador_mining_fallback over items[:15].
RECURSIVE ecuador_fallback_items(_, _, _)
ecuador_fallback_items(items, news, ledger) ==
    IF items = << >> THEN news
    ELSE LET title == strip(Text(Head(items).title))
             link  == strip(Text(Head(items).link))
             hit   == Contains(lower(title), ECUADOR)
                      /\ any_keyword(lower(title), ecuador_fallback_keywords)
             more  == IF hit
                      THEN Append(news, NewsItem("Ecuador Mining News (Fallback)", title, link, "pick"))
                      ELSE news
         IN  IF title = << >> \/ link = << >>
             THEN ecuador_fallback_items(Tail(items), news, ledger)
             ELSE IF hit /\ title \in ledger
             THEN ecuador_fallback_items(Tail(items), news, ledger)
             ELSE IF Len(more) >= ECUADOR_FALLBACK_CAP THEN more
             ELSE ecuador_fallback_items(Tail(items), more, ledger)

\* _ecuador_mining_fallback: the fallback URLs are pages i..n.
RECURSIVE ecuador_mining_fallback(_, _, _, _, _, _)
ecuador_mining_fallback(pages, status, i, n, news, ledger) ==
    IF i > n THEN news
    ELSE IF status[i] # "ok"
    THEN ecuador_mining_fallback(pages, status, i + 1, n, news, ledger)
    ELSE LET more == ecuador_fallback_items(Take(pages[i], ECUADOR_FALLBACK_ITEMS), news, ledger)
         IN  IF more # << >> THEN more
             ELSE ecuador_mining_fallback(pages, status, i + 1, n, more, ledger)

\* get_ecuador_mining_news: pages 1..10 are the Google News feeds, the rest the
\* fallback URLs.
get_ecuador_mining_news(pages, status, ledger) ==
    LET news == feeds_loop(pages, status, 1, ECUADOR_FEEDS, << >>, ledger,
                    [kind |-> "ecuador", source |-> "Ecuador Mining News", emoji |-> "pick",
                     cap |-> ECUADOR_FEED_CAP, enough |-> ECUADOR_ENOUGH])
    IN  IF news = << >>
        THEN ecuador_mining_fallback(pages, status, ECUADOR_FEEDS + 1,
                 ECUADOR_FEEDS + ECUADOR_FALLBACK_URLS, << >>, ledger)
        ELSE news

\* The adapters in the order build_digest and post_news call them.
ADAPTERS ==
    <<"igaming", "cnbc", "crunchbase", "wsj", "medium", "cryptoheadlines",
      "defiant", "ecuador">>

NPages(a) ==
    CASE a = "igaming" -> 2
      [] a = "wsj"     -> 2
      [] a = "medium"  -> 2
      [] a = "ecuador" -> ECUADOR_FEEDS + ECUADOR_FALLBACK_URLS
      [] OTHER         -> 1

\* The call get_<a>_news(...) minus its _maybe_mark_sent.
run_adapter(a, pages, status, ledger) ==
    CASE a = "igaming"         -> get_igaming_news(pages, status, ledger)
      [] a = "cnbc"            -> get_cnbc_crypto_news(pages, status, ledger)
      [] a = "crunchbase"      -> get_crunchbase_news(pages, status, ledger)
      [] a = "wsj"             -> get_wsj_news(pages, status, ledger)
      [] a = "medium"          -> get_medium_news(pages, status, ledger)
      [] a = "cryptoheadlines" -> get_cryptoheadlines_news(pages, status, ledger)
      [] a = "defiant"         -> get_defiant_newsletter_news(pages, status, ledger)
      [] OTHER                 -> get_ecuador_mining_news(pages, status, ledger)

Titles(items) == [i \in 1..Len(items) |-> items[i].title]


(***************************************************************************)
(* Utilities, ledger file and quiet gate.                                  *)
(***************************************************************************)
\* md_escape: each of _ * [ ] ( ) gets a backslash in front.
md_escape(text) ==
    LET esc(c) == IF c \in {"_", "*", "[", "]", "(", ")"} THEN <<"\\", c>> ELSE <<c>>
        F[i \in 0..Len(text)] == IF i = 0 THEN << >> ELSE F[i - 1] \o esc(text[i])
    IN  F[Len(text)]

None == << >>

Some(v) == <<v>>

\* The elements of a JSON list: a string, a number, a nested list or object.
JsonString(text) == [type |-> "string", text |-> text]

JsonNumber(text) == [type |-> "number", text |-> text]

JsonArray == [type |-> "array", text |-> << >>]

\* A Python value in the ledger: a str is its characters, an int is marked.
PyInt(text) == <<"int">> \o text

IsInt(v) == v # << >> /\ v[1] = "int"

PyValue(e) == IF e.type = "number" THEN PyInt(e.text) ELSE e.text

JsonOf(v) == IF IsInt(v) THEN JsonNumber(Tail(v)) ELSE JsonString(v)

\* The ledger file: absent, unreadable, not JSON (such as an empty or partly
\* written file), or a JSON document: an object, a number or a list.
MissingFile == [kind |-> "missing", items |-> << >>]

UnreadableFile == [kind |-> "unreadable", items |-> << >>]

InvalidFile == [kind |-> "invalid", items |-> << >>]

ObjectFile == [kind |-> "object", items |-> << >>]

NumberFile == [kind |-> "number", items |-> << >>]

JsonListFile(elements) == [kind |-> "list", items |-> elements]

\* The document json.dump writes for a list of Python values.
ListFile(items) == JsonListFile([i \in 1..Len(items) |-> JsonOf(items[i])])

\* load_sent_headlines: set(data) raises on an unhashable element (a nested
\* list or object), and every exception gives the empty set.
load_sent_headlines(f) ==
    IF f.kind = "missing" THEN {}
    ELSE IF f.kind \in {"unreadable", "invalid"} THEN {}
    ELSE IF f.kind = "list"
         THEN IF \E i \in DOMAIN f.items : f.items[i].type = "array"
              THEN {}
              ELSE {PyValue(f.items[i]) : i \in DOMAIN f.items}
    ELSE {}

\* sorted() raises on a set that mixes str and int.
Sortable(headlines) ==
    (\A v \in headlines : IsInt(v)) \/ (\A v \in headlines : ~IsInt(v))

\* The outcomes of the write: "ok"; "open" when open() raises, which leaves the
\* file as it was; "dump" when json.dump raises after open() has truncated it.
WriteOutcomes == {"ok", "open", "dump"}

\* A variant of save_sent_headlines that appends the titles the file lacks.
save_sent_headlines_appending(headlines, io, old) ==
    IF io = "open" THEN old
    ELSE IF io = "dump" \/ ~Sortable(headlines) THEN InvalidFile
    ELSE LET kept == IF old.kind = "list"
                     THEN [i \in DOMAIN old.items |-> PyValue(old.items[i])]
                     ELSE << >>
         IN  ListFile(kept \o sorted(headlines \ Range(kept)))

\* save_sent_headlines: the file after the call; every exception is logged.
save_sent_headlines(headlines, io, old) ==
    IF io = "open" THEN old
    ELSE IF io = "dump" \/ ~Sortable(headlines) THEN InvalidFile
    ELSE ListFile(sorted(headlines))

\* Wall-clock time in minutes since midnight of day 0.
MINUTES_PER_DAY == HOURS_PER_DAY * MINUTES_PER_HOUR

DateOf(t) == t \div MINUTES_PER_DAY

HourOf(t) == (t % MINUTES_PER_DAY) \div MINUTES_PER_HOUR

MinuteOf(t) == t % MINUTES_PER_HOUR

\* A variant of set_bot_quiet that ignores its hours.
set_bot_quiet_one_hour(hours, t) == Some(t + MINUTES_PER_HOUR)

\* set_bot_quiet: the new bot_quiet_until.
set_bot_quiet(hours, t) == Some(t + hours * MINUTES_PER_HOUR)

\* is_bot_quiet: the return statement taken, and bot_quiet_until afterwards.
is_bot_quiet_return(until, t) ==
    IF until = None THEN "L128"
    ELSE IF t >= until[1] THEN "L131"
    ELSE "L132"

\* A variant of is_bot_quiet that forgets to clear an expired window.
is_bot_quiet_until_kept(until, t) == until

is_bot_quiet_until(until, t) ==
    IF until = None THEN None
    ELSE IF t >= until[1] THEN None
    ELSE until

\* A variant of the callers' "if is_bot_quiet(): return" that never returns.
quiet_value_ignored(ret) == FALSE

\* The value is_bot_quiet returns, by return statement.
quiet_value(ret) == ret = "L132"

should_send_morning_digest(t) ==
    HourOf(t) = DIGEST_HOUR /\ MinuteOf(t) = DIGEST_MINUTE

\* A variant of main_loop's test that forgets the day it last sent.
digest_due_always(last, today) == TRUE

\* main_loop: if _last_digest_date != today_str
digest_due(last, today) == last # Some(today)

\* main's test for skipping the startup digest.
near_scheduled(t) ==
    HourOf(t) = DIGEST_HOUR /\ MinuteOf(t) < STARTUP_GUARD_MINUTES

(***************************************************************************)
(* Digest building.                                                        *)
(***************************************************************************)
\* fetch_crypto_prices: up is the set of price providers that answer.
PROVIDERS == {"cmc", "sp500", "gold", "titan"}

fetch_crypto_prices(up) ==
    [btc   |-> IF "cmc" \in up THEN "$btc" ELSE "N/A",
     eth   |-> IF "cmc" \in up THEN "$eth" ELSE "N/A",
     hype  |-> IF "cmc" \in up THEN "$hype" ELSE "N/A",
     sp500 |-> IF "sp500" \in up THEN "$sp500" ELSE "N/A",
     gold  |-> IF "gold" \in up THEN "$gold" ELSE "N/A",
     titan |-> IF "titan" \in up THEN "$titan" ELSE "N/A"]

\* The sections of the digest text, in the order they are rendered.
SECTIONS ==
    << [title |-> "iGaming News", adapter |-> "igaming"],
       [title |-> "Crunchbase News", adapter |-> "crunchbase"],
       [title |-> "CNBC Crypto News", adapter |-> "cnbc"],
       [title |-> "WSJ News", adapter |-> "wsj"],
       [title |-> "Medium News", adapter |-> "medium"],
       [title |-> "CryptoHeadlines News", adapter |-> "cryptoheadlines"],
       [title |-> "The Defiant Newsletter", adapter |-> "defiant"],
       [title |-> "Ecuador Mining & Gold News", adapter |-> "ecuador"] >>

\* A variant of build_digest without the filtering against sent_copy.
not_sent_unfiltered(items, sent_copy) == items

\* [n for n in items if n.title not in sent_copy]
not_sent(items, sent_copy) ==
    LET keep(n) == n.title \notin sent_copy IN SelectSeq(items, keep)

\* A variant of format_section that renders no placeholder.
format_section_bare(title, items) ==
    [header |-> title,
     placeholder |-> FALSE,
     lines |-> [i \in 1..Len(items) |->
                   [n |-> i, title |-> md_escape(items[i].title), url |-> items[i].url]]]

\* format_section: the header and either the numbered lines or the placeholder.
format_section(title, items) ==
    [header |-> title,
     placeholder |-> items = << >>,
     lines |-> [i \in 1..Len(items) |->
                   [n |-> i, title |-> md_escape(items[i].title), url |-> items[i].url]]]

RECURSIVE Concat(_)
Concat(seqs) == IF seqs = << >> THEN << >> ELSE Head(seqs) \o Concat(Tail(seqs))

\* A variant of build_digest that lists included_titles in the order the
\* adapters were called.
render_digest_fetch_order(prices, news_all, sent_copy) ==
    LET news(a) == not_sent(news_all[a], sent_copy) IN
    [text |-> [prices |-> prices,
               sections |-> [k \in 1..Len(SECTIONS) |->
                                format_section(SECTIONS[k].title, news(SECTIONS[k].adapter))]],
     included_titles |->
        Concat([k \in 1..Len(ADAPTERS) |-> Titles(news(ADAPTERS[k]))])]

\* The Digest build_digest returns, from the prices, the adapters' results and
\* the ledger snapshot.
render_digest(prices, news_all, sent_copy) ==
    LET news(a) == not_sent(news_all[a], sent_copy) IN
    [text |-> [prices |-> prices,
               sections |-> [k \in 1..Len(SECTIONS) |->
                                format_section(SECTIONS[k].title, news(SECTIONS[k].adapter))]],
     included_titles |->
        Concat([k \in 1..Len(SECTIONS) |-> Titles(news(SECTIONS[k].adapter))])]

(***************************************************************************)
(* Telegram messaging.                                                     *)
(***************************************************************************)
\* The line boundaries str.splitlines knows, among the characters used.
LineBreaks == {"\n", "\r"}

\* text.splitlines(keepends=True): line is the line being read; "\r\n" ends a
\* line as one boundary.
RECURSIVE splitlines(_, _)
splitlines(text, line) ==
    IF text = << >> THEN (IF line = << >> THEN << >> ELSE <<line>>)
    ELSE IF Len(text) >= 2 /\ text[1] = "\r" /\ text[2] = "\n"
         THEN <<line \o <<"\r", "\n">> >> \o splitlines(SubSeq(text, 3, Len(text)), << >>)
    ELSE IF Head(text) \in LineBreaks
         THEN <<Append(line, Head(text))>> \o splitlines(Tail(text), << >>)
    ELSE splitlines(Tail(text), Append(line, Head(text)))

\* The loop of chunk_message over lines, with buf and total; the chunks yielded.
RECURSIVE chunk_loop(_, _, _, _)
chunk_loop(lines, buf, total, max_len) ==
    IF lines = << >> THEN (IF buf # << >> THEN <<Concat(buf)>> ELSE << >>)
    ELSE LET line == Head(lines) IN
         IF total + Len(line) > max_len /\ buf # << >>
         THEN <<Concat(buf)>> \o chunk_loop(Tail(lines), <<line>>, Len(line), max_len)
         ELSE chunk_loop(Tail(lines), Append(buf, line), total + Len(line), max_len)

\* A variant of chunk_message that splits with keepends=False.
chunk_message_keepends_false(text, max_len) ==
    LET lines == splitlines(text, << >>)
        bare(line) == SelectSeq(line, LAMBDA c : c \notin LineBreaks)
    IN  IF Len(text) <= max_len THEN <<text>>
        ELSE chunk_loop([i \in 1..Len(lines) |-> bare(lines[i])], << >>, 0, max_len)

chunk_message(text, max_len) ==
    IF Len(text) <= max_len THEN <<text>>
    ELSE chunk_loop(splitlines(text, << >>), << >>, 0, max_len)

\* The loop of send_telegram_message over the chunks: answers[i] is the outcome
\* of the i-th POST, "200", another status, or "raise"; posted are the chunks
\* handed to requests.post so far.
RECURSIVE send_loop(_, _, _, _)
send_loop(chunks, answers, ok, posted) ==
    IF chunks = << >> THEN [ok |-> ok, posted |-> posted]
    ELSE send_loop(Tail(chunks), Tail(answers),
                   ok /\ Head(answers) = "200", Append(posted, Head(chunks)))

\* A variant of send_telegram_message that stops at the first failed chunk.
send_telegram_message_break(message, max_len, answers) ==
    LET chunks == chunk_message(message, max_len)
        bad == {i \in DOMAIN chunks : answers[i] # "200"}
        last == IF bad = {} THEN Len(chunks) ELSE CHOOSE i \in bad : \A j \in bad : i <= j
    IN  send_loop(SubSeq(chunks, 1, last), answers, TRUE, << >>)

\* send_telegram_message, with chunk_message's max_len made explicit.
send_telegram_message(message, max_len, answers) ==
    send_loop(chunk_message(message, max_len), answers, TRUE, << >>)

\* A variant of a caller that passes mark_sent=True to the adapters.
mark_sent_true == TRUE

\* mark_sent as build_digest and post_news pass it to every adapter.
build_digest_mark_sent == FALSE

post_news_mark_sent == FALSE

(***************************************************************************)
(* Bounds of the model and the environment it is checked in.               *)
(***************************************************************************)
MaxDay == 0

MaxCarriers == 1

MaxText == 4

MaxLen == 3

MaxItems == 2

MaxEntries == 11

MaxRaises == 1

\* The times of day the clock takes: 08:59, 09:00, 09:01 and 15:01.
DayInstants ==
    { DIGEST_HOUR * MINUTES_PER_HOUR - 1,
      DIGEST_HOUR * MINUTES_PER_HOUR,
      DIGEST_HOUR * MINUTES_PER_HOUR + 1,
      (DIGEST_HOUR + QUIET_HOURS) * MINUTES_PER_HOUR + 1 }

Instants == {d * MINUTES_PER_DAY + m : d \in 0..MaxDay, m \in DayInstants}

Days == 0..MaxDay

\* The stories on the wire.
TitleDeal == <<"C","a","s","i","n","o"," ","D","e","a","l">>

TitleCoin == <<"B","i","t","c","o","i","n">>

Wire ==
    << [title |-> <<TitleDeal>>, link |-> << <<"h","t","t","p","s",":","/","/","w","s","j",".","c","o","m","/","a">> >>],
       [title |-> <<TitleCoin>>, link |-> << <<"/","b">> >>] >>

\* A feed gives every adapter its pages; the adapters in carriers serve the wire
\* on each of their pages, the others serve nothing.
FeedWith(carriers, wire) ==
    [a \in Range(ADAPTERS) |->
        [p \in 1..NPages(a) |-> IF a \in carriers THEN wire ELSE << >>]]

FeedOf(carriers) == FeedWith(carriers, Wire)

\* A wire whose first title has Markdown characters and no keyword of Crunchbase.
TitleMajor == <<"M","a","j","o","r","_","[","1","]">>

DigestWire ==
    << [title |-> <<TitleMajor>>, link |-> << <<"h","t","t","p","s",":","/","/","x",".","i","o","/","a">> >>],
       [title |-> <<TitleCoin>>, link |-> << <<"/","b">> >>] >>

DigestFeeds ==
    {FeedWith(c, DigestWire) : c \in {{}, {"cnbc", "crunchbase"}, Range(ADAPTERS)}}

\* The price providers that answer: none, some, all.
DigestQuotes == {{}, {"cmc", "gold"}, PROVIDERS}

Feeds(among) == {FeedOf(c) : c \in {c \in SUBSET among : Cardinality(c) <= MaxCarriers}}

\* The request outcomes of one adapter run: every page answers, or every page
\* has the same failure, or the first or second page fails while the others
\* answer.
Statuses == {"ok", "403", "error", "raise"}

StatusChoices(a) ==
    {[p \in 1..NPages(a) |-> s] : s \in Statuses}
    \cup {[p \in 1..NPages(a) |-> IF p = q THEN s ELSE "ok"] :
             q \in {q \in {1, 2} : q <= NPages(a)}, s \in Statuses \ {"ok"}}

\* The adapters that may carry the wire in the specification Spec.
Carriers == {"igaming", "wsj"}

InitialFiles == {MissingFile, ListFile(<<TitleCoin>>)}

Commands == {"/start", "/bignews", "/shutup", "hello"}

\* The files load_sent_headlines may find: no file, an unreadable one, one that
\* is not JSON, an object, a number, and the lists of up to MaxItems elements.
JsonElements ==
    {JsonString(TitleCoin), JsonNumber(<<"1">>), JsonNumber(<<"2">>), JsonArray}

Documents ==
    {MissingFile, UnreadableFile, InvalidFile, ObjectFile, NumberFile}
    \cup {JsonListFile(e) : e \in UNION {[1..n -> JsonElements] : n \in 0..MaxItems}}

\* The calls of send_telegram_message: texts of a letter and line feeds, small
\* limits, and an outcome for each POST.
PostOutcomes == {"200", "500", "raise"}

SendCalls ==
    {[fn |-> "send_telegram_message",
      args |-> [message |-> text, max_len |-> max_len, answers |-> answers],
      result |-> << >>] :
        text \in UNION {[1..n -> {"a", "\n"}] : n \in 0..MaxText},
        max_len \in 0..MaxLen,
        answers \in [1..MaxText + 1 -> PostOutcomes]}

\* The entries a page may repeat: the two stories of the wire, an anchor with
\* no text and an item whose link element is empty.
EntryBlank == [title |-> << << >> >>, link |-> << <<"/","c">> >>]

EntryNoUrl == [title |-> <<TitleDeal>>, link |-> << << >> >>]

Entries == {Wire[1], Wire[2], EntryBlank, EntryNoUrl}

Repeat(e, k) == [i \in 1..k |-> e]

\* The calls of the adapters: every page of the adapter repeats one entry once
\* or MaxEntries times, under each request outcome and ledger.
AdapterCalls ==
    UNION {
      {[fn |-> a,
        args |-> [pages |-> [p \in 1..NPages(a) |-> Repeat(e, k)],
                  status |-> status,
                  ledger |-> ledger],
        result |-> << >>] :
          e \in Entries, k \in {1, MaxEntries},
          status \in StatusChoices(a), ledger \in {{}, {TitleCoin}}} :
      a \in Range(ADAPTERS)}

\* The calls of chunk_message: texts of letters and line breaks, small limits.
ChunkChars == {"a", "\n", "\r"}

ChunkCalls ==
    {[fn |-> "chunk_message", args |-> [text |-> text, max_len |-> max_len], result |-> << >>] :
        text \in UNION {[1..n -> ChunkChars] : n \in 0..MaxText}, max_len \in 0..MaxLen}

(***************************************************************************)
(* State.                                                                  *)
(***************************************************************************)
VARIABLES
    sent_headlines,     \* the in-memory ledger
    file,               \* sent_headlines.json
    bot_quiet_until,    \* None or Some(time)
    last_digest_date,   \* _last_digest_date: None or Some(date)
    last_digest_date_lock, \* _last_digest_date_lock: None or Some(thread holding it)
    now,                \* the wall clock
    feed,               \* what the sources serve
    quotes,             \* the price providers that answer
    pc,                 \* where each thread is
    job,                \* the scheduled path the scheduler thread is in
    hourly_counter,     \* main_loop's hourly_counter
    today_str,          \* main_loop's today_str while the daily digest runs
    quiet_ret,          \* the return statement of the last is_bot_quiet call
    cmd,                \* the text the webhook thread is handling
    idx,                \* the adapter a thread fetches next
    prices,             \* build_digest's prices
    news_all,           \* the adapters' results (the *_news_all locals)
    sent_copy,          \* build_digest's sent_copy
    digest,             \* the Digest built
    success,            \* the result of sending the digest
    cycle_start,        \* the ledger as it was when build_digest was entered
    daily_dispatches,   \* per date, the dispatches made by the daily trigger
    trigger_polls,      \* per date, the polls that read the trigger time: 0, 1, more
    call,               \* a function called on its own: its name, arguments, result
    sent_headlines_lock, \* sent_headlines_lock: None or Some(thread holding it)
    boot,               \* when recorded: what main did at startup and when
    outbox              \* when recorded: the messages sent for the latest webhook request

vars ==
    <<sent_headlines, file, bot_quiet_until, last_digest_date, last_digest_date_lock, now,
      feed, quotes, pc, job,
      hourly_counter, today_str, quiet_ret, cmd, idx, prices, news_all, sent_copy,
      digest, success, cycle_start, daily_dispatches, trigger_polls, call,
      sent_headlines_lock, boot, outbox>>

SCHED == "sched"

WEB == "web"

Threads == {SCHED, WEB}

NoPrices == fetch_crypto_prices({})

NoNews == [a \in Range(ADAPTERS) |-> << >>]

NoDigest == [text |-> [prices |-> NoPrices, sections |-> << >>], included_titles |-> << >>]

ledger_vars == <<sent_headlines, file, sent_headlines_lock>>

\* What no step of the two threads changes.
env == <<feed, quotes, call>>

\* Every variable of the two threads and their surroundings.
program_vars ==
    <<sent_headlines, file, bot_quiet_until, last_digest_date, last_digest_date_lock, now,
      feed, quotes, pc, job,
      hourly_counter, today_str, quiet_ret, cmd, idx, prices, news_all, sent_copy,
      digest, success, cycle_start, daily_dispatches, trigger_polls,
      sent_headlines_lock, boot, outbox>>

NoCall == [fn |-> "", args |-> << >>, result |-> << >>]

history == <<daily_dispatches, trigger_polls>>

sched_vars == <<job, hourly_counter, today_str, quiet_ret>>

build_vars == <<idx, prices, news_all, sent_copy, digest, success, cycle_start>>

Goto(t, label) == pc' = [pc EXCEPT ![t] = label]

\* The locals of build_digest and of its caller go out of scope.
DropLocals(t) ==
    /\ idx' = [idx EXCEPT ![t] = 0]
    /\ prices' = [prices EXCEPT ![t] = NoPrices]
    /\ news_all' = [news_all EXCEPT ![t] = NoNews]
    /\ sent_copy' = [sent_copy EXCEPT ![t] = {}]
    /\ digest' = [digest EXCEPT ![t] = NoDigest]
    /\ success' = [success EXCEPT ![t] = FALSE]
    /\ cycle_start' = [cycle_start EXCEPT ![t] = {}]

\* What is recorded of the startup and of the webhook replies, in the
\* specifications that record it.
NoBoot == [startup |-> "unrecorded", at |-> None, loop_at |-> None]

Booting == [startup |-> "pending", at |-> None, loop_at |-> None]

FirstInstant == CHOOSE t \in Instants : \A u \in Instants : t <= u

InitState(feeds, files, ups, calls, starts, recorded) ==
    /\ call \in calls
    /\ sent_headlines_lock = None
    /\ boot = IF recorded THEN Booting ELSE NoBoot
    /\ outbox = IF recorded THEN Some(<< >>) ELSE None
    /\ file \in files
    /\ sent_headlines = load_sent_headlines(file)
    /\ bot_quiet_until = None
    /\ last_digest_date = None
    /\ last_digest_date_lock = None
    /\ now \in starts
    /\ feed \in feeds
    /\ quotes \in ups
    /\ pc = [t \in Threads |-> IF t = SCHED THEN "main" ELSE "idle"]
    /\ job = ""
    /\ hourly_counter = 0
    /\ today_str = None
    /\ quiet_ret = "none"
    /\ cmd = ""
    /\ idx = [t \in Threads |-> 0]
    /\ prices = [t \in Threads |-> NoPrices]
    /\ news_all = [t \in Threads |-> NoNews]
    /\ sent_copy = [t \in Threads |-> {}]
    /\ digest = [t \in Threads |-> NoDigest]
    /\ success = [t \in Threads |-> FALSE]
    /\ cycle_start = [t \in Threads |-> {}]
    /\ daily_dispatches = [d \in Days |-> 0]
    /\ trigger_polls = [d \in Days |-> 0]

InitCalls(feeds, files, ups, calls) ==
    InitState(feeds, files, ups, calls, {FirstInstant}, FALSE)

InitWith(feeds, files, ups) == InitCalls(feeds, files, ups, {NoCall})

(***************************************************************************)
(* The ledger's mark operations.                                           *)
(***************************************************************************)
\* A variant of _mark_titles_as_sent that keeps only the new titles.
mark_titles_as_sent_replacing(titles) ==
    IF titles = << >> THEN UNCHANGED ledger_vars
    ELSE /\ sent_headlines' = Range(titles)
         /\ \E io \in WriteOutcomes :
                file' = save_sent_headlines(sent_headlines', io, file)
         /\ UNCHANGED sent_headlines_lock

\* A variant of _mark_titles_as_sent that records nothing.
mark_titles_as_sent_dropped(titles) == UNCHANGED ledger_vars

\* _mark_titles_as_sent
mark_titles_as_sent(titles) ==
    IF titles = << >> THEN UNCHANGED ledger_vars
    ELSE /\ sent_headlines' = sent_headlines \cup Range(titles)
         /\ \E io \in WriteOutcomes :
                file' = save_sent_headlines(sent_headlines', io, file)
         /\ UNCHANGED sent_headlines_lock

\* A variant of _maybe_mark_sent that ignores its mark flag.
maybe_mark_sent_always(items, mark) ==
    IF items = << >> THEN UNCHANGED ledger_vars
    ELSE /\ sent_headlines' = sent_headlines \cup Range(Titles(items))
         /\ \E io \in WriteOutcomes :
                file' = save_sent_headlines(sent_headlines', io, file)
         /\ UNCHANGED sent_headlines_lock

\* _maybe_mark_sent
maybe_mark_sent(items, mark) ==
    IF ~mark \/ items = << >> THEN UNCHANGED ledger_vars
    ELSE /\ sent_headlines' = sent_headlines \cup Range(Titles(items))
         /\ \E io \in WriteOutcomes :
                file' = save_sent_headlines(sent_headlines', io, file)
         /\ UNCHANGED sent_headlines_lock

(***************************************************************************)
(* _mark_titles_as_sent step by step, as two threads run it at once: the   *)
(* titles of thread t are call.args.titles[t].                             *)
(***************************************************************************)
\* if not titles: return
MarkCall(t) ==
    /\ call.fn = "_mark_titles_as_sent"
    /\ pc[t] \in {"main", "idle"}
    /\ Goto(t, IF call.args.titles[t] = << >> THEN "mk_done" ELSE "mk_acquire")
    /\ UNCHANGED <<ledger_vars, bot_quiet_until, last_digest_date, last_digest_date_lock,
                   now, env, boot, outbox, cmd, sched_vars, build_vars, history>>

\* A variant of the acquisition that does not wait for the lock.
MarkAcquireUnguarded(t) ==
    /\ pc[t] = "mk_acquire"
    /\ sent_headlines_lock' = Some(t)
    /\ Goto(t, "mk_add")
    /\ UNCHANGED <<sent_headlines, file, bot_quiet_until, last_digest_date,
                   last_digest_date_lock, now, env, boot, outbox, cmd, sched_vars,
                   build_vars, history>>

\* with sent_headlines_lock: the thread waits until the lock is free.
MarkAcquire(t) ==
    /\ pc[t] = "mk_acquire"
    /\ sent_headlines_lock = None
    /\ sent_headlines_lock' = Some(t)
    /\ Goto(t, "mk_add")
    /\ UNCHANGED <<sent_headlines, file, bot_quiet_until, last_digest_date,
                   last_digest_date_lock, now, env, boot, outbox, cmd, sched_vars,
                   build_vars, history>>

\* for t in titles: sent_headlines.add(t)
MarkAdd(t) ==
    /\ pc[t] = "mk_add"
    /\ sent_headlines' = sent_headlines \cup Range(call.args.titles[t])
    /\ Goto(t, "mk_open")
    /\ UNCHANGED <<file, sent_headlines_lock, bot_quiet_until, last_digest_date,
                   last_digest_date_lock, now, env, boot, outbox, cmd, sched_vars,
                   build_vars, history>>

\* save_sent_headlines: open(..., "w") truncates the file, or raises and leaves it.
MarkOpen(t, outcomes) ==
    /\ pc[t] = "mk_open"
    /\ \E io \in outcomes \ {"dump"} :
          /\ file' = IF io = "open" THEN file ELSE InvalidFile
          /\ Goto(t, IF io = "open" THEN "mk_release" ELSE "mk_dump")
    /\ UNCHANGED <<sent_headlines, sent_headlines_lock, bot_quiet_until, last_digest_date,
                   last_digest_date_lock, now, env, boot, outbox, cmd, sched_vars,
                   build_vars, history>>

\* save_sent_headlines: json.dump(sorted(set(headlines)), f, ...) and the close.
MarkDump(t, outcomes) ==
    /\ pc[t] = "mk_dump"
    /\ \E io \in outcomes \ {"open"} :
          file' = save_sent_headlines(sent_headlines, io, file)
    /\ Goto(t, "mk_release")
    /\ UNCHANGED <<sent_headlines, sent_headlines_lock, bot_quiet_until, last_digest_date,
                   last_digest_date_lock, now, env, boot, outbox, cmd, sched_vars,
                   build_vars, history>>

\* The with block is left and the lock released.
MarkRelease(t) ==
    /\ pc[t] = "mk_release"
    /\ sent_headlines_lock' = None
    /\ Goto(t, "mk_done")
    /\ UNCHANGED <<sent_headlines, file, bot_quiet_until, last_digest_date,
                   last_digest_date_lock, now, env, boot, outbox, cmd, sched_vars,
                   build_vars, history>>

(***************************************************************************)
(* The environment: time passes.                                           *)
(***************************************************************************)
Tick ==
    /\ \E t \in Instants :
          /\ t > now
          /\ \A u \in Instants : u > now => t <= u
          /\ now' = t
    /\ UNCHANGED <<ledger_vars, bot_quiet_until, last_digest_date, last_digest_date_lock, env, boot, outbox, pc, cmd,
                   sched_vars, build_vars, history>>

(***************************************************************************)
(* build_digest, run by either thread.                                     *)
(***************************************************************************)
BuildPrices(t) ==
    /\ pc[t] = "bd_prices"
    /\ prices' = [prices EXCEPT ![t] = fetch_crypto_prices(quotes)]
    /\ idx' = [idx EXCEPT ![t] = 1]
    /\ cycle_start' = [cycle_start EXCEPT ![t] = sent_headlines]
    /\ Goto(t, "bd_fetch")
    /\ UNCHANGED <<ledger_vars, bot_quiet_until, last_digest_date, last_digest_date_lock, now, env, boot, outbox, cmd,
                   sched_vars, news_all, sent_copy, digest, success, history>>

\* One get_<adapter>_news(mark_sent=...) call of build_digest.
BuildFetch(t) ==
    /\ pc[t] = "bd_fetch"
    /\ LET a == ADAPTERS[idx[t]] IN
       \E status \in StatusChoices(a) :
          LET news == run_adapter(a, feed[a], status, sent_headlines) IN
          /\ news_all' = [news_all EXCEPT ![t][a] = news]
          /\ maybe_mark_sent(news, build_digest_mark_sent)
    /\ IF idx[t] < Len(ADAPTERS)
       THEN idx' = [idx EXCEPT ![t] = idx[t] + 1] /\ UNCHANGED pc
       ELSE idx' = [idx EXCEPT ![t] = 0] /\ Goto(t, "bd_snap")
    /\ UNCHANGED <<bot_quiet_until, last_digest_date, last_digest_date_lock, now, env, boot, outbox, cmd, sched_vars,
                   prices, sent_copy, digest, success, cycle_start, history>>

\* with sent_headlines_lock: sent_copy = set(sent_headlines)
BuildSnapshot(t) ==
    /\ pc[t] = "bd_snap"
    /\ sent_copy' = [sent_copy EXCEPT ![t] = sent_headlines]
    /\ Goto(t, "bd_render")
    /\ UNCHANGED <<ledger_vars, bot_quiet_until, last_digest_date, last_digest_date_lock, now, env, boot, outbox, cmd,
                   sched_vars, idx, prices, news_all, digest, success, cycle_start,
                   history>>

\* The filtering against sent_copy, the text and included_titles.
build_digest_result(t) == render_digest(prices[t], news_all[t], sent_copy[t])

BuildRender(t) ==
    /\ pc[t] = "bd_render"
    /\ digest' = [digest EXCEPT ![t] = build_digest_result(t)]
    /\ Goto(t, IF t = SCHED THEN "smd_send" ELSE "wb_send")
    /\ UNCHANGED <<ledger_vars, bot_quiet_until, last_digest_date, last_digest_date_lock, now, env, boot, outbox, cmd,
                   sched_vars, idx, prices, news_all, sent_copy, success, cycle_start,
                   history>>

(***************************************************************************)
(* The scheduler thread: main, send_morning_digest, post_news, main_loop.  *)
(***************************************************************************)
\* What main does at startup, where recorded: the startup digest is dispatched
\* or skipped at time t; a skip enters main_loop at once.
boot_main(b, near, t) ==
    IF b = NoBoot THEN b
    ELSE IF near THEN [startup |-> "skipped", at |-> Some(t), loop_at |-> Some(t)]
    ELSE [startup |-> "dispatched", at |-> Some(t), loop_at |-> None]

\* main_loop is entered at time t after the startup digest.
boot_loop(b, t) == IF b = NoBoot THEN b ELSE [b EXCEPT !.loop_at = Some(t)]

\* main: the startup digest, unless the clock is near the scheduled time.
Main ==
    /\ pc[SCHED] = "main"
    /\ boot' = boot_main(boot, near_scheduled(now), now)
    /\ IF near_scheduled(now)
       THEN Goto(SCHED, "loop_top") /\ job' = ""
       ELSE Goto(SCHED, "smd_quiet") /\ job' = "startup"
    /\ UNCHANGED <<ledger_vars, bot_quiet_until, last_digest_date, last_digest_date_lock, now, env, outbox, cmd,
                   hourly_counter, today_str, quiet_ret, build_vars, history>>

\* The is_bot_quiet() call that opens send_morning_digest and post_news.
IsBotQuiet(at, next) ==
    /\ pc[SCHED] = at
    /\ quiet_ret' = is_bot_quiet_return(bot_quiet_until, now)
    /\ bot_quiet_until' = is_bot_quiet_until(bot_quiet_until, now)
    /\ Goto(SCHED, next)
    /\ UNCHANGED <<ledger_vars, last_digest_date, last_digest_date_lock, now, env, boot, outbox, cmd, job, hourly_counter,
                   today_str, build_vars, history>>

SmdQuietCheck == IsBotQuiet("smd_quiet", "smd_branch")

PnQuietCheck == IsBotQuiet("pn_quiet", "pn_branch")

\* A variant of the return in which main_loop skips the assignment of
\* _last_digest_date.
SmdReturnDateSkipped ==
    IF job = "startup"
    THEN Goto(SCHED, "loop_top") /\ job' = "" /\ boot' = boot_loop(boot, now)
    ELSE Goto(SCHED, "loop_top") /\ job' = "" /\ boot' = boot

\* send_morning_digest returns to main (which enters main_loop) or to main_loop.
SmdReturn ==
    IF job = "startup"
    THEN Goto(SCHED, "loop_top") /\ job' = "" /\ boot' = boot_loop(boot, now)
    ELSE Goto(SCHED, "loop_after_digest") /\ job' = job /\ boot' = boot

\* if is_bot_quiet(): return
SmdBranch ==
    /\ pc[SCHED] = "smd_branch"
    /\ quiet_ret' = "none"
    /\ IF quiet_value(quiet_ret)
       THEN SmdReturn
       ELSE Goto(SCHED, "bd_prices") /\ job' = job /\ boot' = boot
    /\ UNCHANGED <<ledger_vars, bot_quiet_until, last_digest_date, last_digest_date_lock, now, env, outbox, cmd,
                   hourly_counter, today_str, build_vars, history>>

\* success = send_telegram_message(digest.text); a failure returns.
SmdSend ==
    /\ pc[SCHED] = "smd_send"
    /\ \E ok \in BOOLEAN :
          IF ok
          THEN /\ success' = [success EXCEPT ![SCHED] = TRUE]
               /\ Goto(SCHED, "smd_mark")
               /\ UNCHANGED <<job, boot, idx, prices, news_all, sent_copy, digest, cycle_start>>
          ELSE SmdReturn /\ DropLocals(SCHED)
    /\ UNCHANGED <<ledger_vars, bot_quiet_until, last_digest_date, last_digest_date_lock, now, env, outbox, cmd,
                   hourly_counter, today_str, quiet_ret, history>>

\* if success: _mark_titles_as_sent(digest.included_titles)
SmdMark ==
    /\ pc[SCHED] = "smd_mark"
    /\ mark_titles_as_sent(digest[SCHED].included_titles)
    /\ SmdReturn
    /\ DropLocals(SCHED)
    /\ UNCHANGED <<bot_quiet_until, last_digest_date, last_digest_date_lock, now, env, outbox, cmd, hourly_counter,
                   today_str, quiet_ret, history>>

\* main_loop from "if hourly_counter >= 3600" to the end of the iteration.
HourlyCheck ==
    IF hourly_counter >= HOURLY_THRESHOLD
    THEN Goto(SCHED, "pn_quiet") /\ job' = "hourly" /\ UNCHANGED hourly_counter
    ELSE /\ Goto(SCHED, "loop_top")
         /\ job' = ""
         /\ hourly_counter' = hourly_counter + POLL_INTERVAL

\* The polls seen after one more: 0, 1, or more than one.
OneMorePoll(n) == IF n < 2 THEN n + 1 ELSE n

\* One iteration of main_loop up to the daily dispatch or, without one, to its end.
LoopTop ==
    /\ pc[SCHED] = "loop_top"
    /\ should_send_morning_digest(now) => last_digest_date_lock = None
    /\ trigger_polls' =
          IF should_send_morning_digest(now)
          THEN [trigger_polls EXCEPT ![DateOf(now)] = OneMorePoll(trigger_polls[DateOf(now)])]
          ELSE trigger_polls
    /\ IF should_send_morning_digest(now) /\ digest_due(last_digest_date, DateOf(now))
       THEN /\ today_str' = Some(DateOf(now))
            /\ daily_dispatches' =
                  [daily_dispatches EXCEPT ![DateOf(now)] = daily_dispatches[DateOf(now)] + 1]
            /\ Goto(SCHED, "smd_quiet")
            /\ job' = "daily"
            /\ last_digest_date_lock' = Some(SCHED)
            /\ UNCHANGED hourly_counter
       ELSE HourlyCheck /\ UNCHANGED <<today_str, daily_dispatches, last_digest_date_lock>>
    /\ UNCHANGED <<ledger_vars, bot_quiet_until, last_digest_date, now, env, boot, outbox, cmd,
                   quiet_ret, build_vars>>

\* _last_digest_date = today_str, then the rest of the iteration.
LoopAfterDigest ==
    /\ pc[SCHED] = "loop_after_digest"
    /\ last_digest_date' = today_str
    /\ last_digest_date_lock' = None
    /\ today_str' = None
    /\ HourlyCheck
    /\ UNCHANGED <<ledger_vars, bot_quiet_until, now, env, boot, outbox, cmd, quiet_ret, build_vars,
                   history>>

\* An exception raised inside the try block of send_morning_digest, in
\* build_digest or in the send: it is logged and send_morning_digest returns.
SmdRaise ==
    /\ pc[SCHED] \in {"bd_prices", "bd_fetch", "bd_snap", "bd_render", "smd_send"}
    /\ SmdReturn
    /\ DropLocals(SCHED)
    /\ UNCHANGED <<ledger_vars, bot_quiet_until, last_digest_date, last_digest_date_lock,
                   now, env, outbox, cmd, hourly_counter, today_str, quiet_ret, history>>

\* An exception raised in the iteration outside the try blocks of
\* send_morning_digest and post_news: in the time check, or in the is_bot_quiet
\* call that opens the daily digest or the hourly fetch.  It leaves the with
\* block, which releases _last_digest_date_lock, and reaches the handler.
LoopRaise ==
    /\ \/ pc[SCHED] = "loop_top"
       \/ pc[SCHED] = "smd_quiet" /\ job = "daily"
       \/ pc[SCHED] = "pn_quiet"
    /\ \A d \in Days : daily_dispatches[d] <= MaxRaises
    /\ Goto(SCHED, "loop_except")
    /\ last_digest_date_lock' = None
    /\ job' = ""
    /\ today_str' = None
    /\ UNCHANGED <<ledger_vars, bot_quiet_until, last_digest_date, now, env, boot, outbox, cmd,
                   hourly_counter, quiet_ret, build_vars, history>>

\* A variant of the handler that leaves main_loop.
LoopExit ==
    /\ pc[SCHED] = "loop_except"
    /\ Goto(SCHED, "done")
    /\ UNCHANGED <<ledger_vars, bot_quiet_until, last_digest_date, last_digest_date_lock,
                   now, env, boot, outbox, cmd, sched_vars, build_vars, history>>

\* except Exception: the log, time.sleep(60), and the next iteration.
LoopBackoff ==
    /\ pc[SCHED] = "loop_except"
    /\ Goto(SCHED, "loop_top")
    /\ UNCHANGED <<ledger_vars, bot_quiet_until, last_digest_date, last_digest_date_lock,
                   now, env, boot, outbox, cmd, sched_vars, build_vars, history>>

\* post_news returns: hourly_counter = 0, the sleep, hourly_counter += poll_interval.
PnReturn ==
    /\ Goto(SCHED, "loop_top")
    /\ job' = ""
    /\ hourly_counter' = 0 + POLL_INTERVAL

PnBranch ==
    /\ pc[SCHED] = "pn_branch"
    /\ quiet_ret' = "none"
    /\ IF quiet_value(quiet_ret)
       THEN PnReturn /\ UNCHANGED idx
       ELSE /\ Goto(SCHED, "pn_fetch")
            /\ idx' = [idx EXCEPT ![SCHED] = 1]
            /\ UNCHANGED <<job, hourly_counter>>
    /\ UNCHANGED <<ledger_vars, bot_quiet_until, last_digest_date, last_digest_date_lock, now, env, boot, outbox, cmd,
                   today_str, prices, news_all, sent_copy, digest, success, cycle_start,
                   history>>

\* One get_<adapter>_news(mark_sent=...) call of post_news; after the last one the
\* counts are logged and post_news returns.
PnFetch ==
    /\ pc[SCHED] = "pn_fetch"
    /\ LET a == ADAPTERS[idx[SCHED]] IN
       \E status \in StatusChoices(a) :
          LET news == run_adapter(a, feed[a], status, sent_headlines) IN
          /\ maybe_mark_sent(news, post_news_mark_sent)
          /\ IF idx[SCHED] < Len(ADAPTERS)
             THEN /\ news_all' = [news_all EXCEPT ![SCHED][a] = news]
                  /\ idx' = [idx EXCEPT ![SCHED] = idx[SCHED] + 1]
                  /\ UNCHANGED <<pc, job, hourly_counter>>
             ELSE /\ news_all' = [news_all EXCEPT ![SCHED] = NoNews]
                  /\ idx' = [idx EXCEPT ![SCHED] = 0]
                  /\ PnReturn
    /\ UNCHANGED <<bot_quiet_until, last_digest_date, last_digest_date_lock, now, env, boot, outbox, cmd, today_str,
                   quiet_ret, prices, sent_copy, digest, success, cycle_start,
                   history>>

(***************************************************************************)
(* The webhook thread: telegram_webhook.                                   *)
(***************************************************************************)
\* One more send_telegram_message call of the webhook handler, where recorded.
replied(box, message) == IF box = None THEN box ELSE Some(Append(box[1], message))

WebReceive(texts) ==
    /\ pc[WEB] = "idle"
    /\ \E text \in texts : cmd' = text
    /\ Goto(WEB, "wb_handle")
    /\ outbox' = IF outbox = None THEN outbox ELSE Some(<< >>)
    /\ UNCHANGED <<ledger_vars, bot_quiet_until, last_digest_date, last_digest_date_lock, now, env, boot,
                   sched_vars, build_vars, history>>

WebDone == Goto(WEB, "idle") /\ cmd' = ""

\* /start: the welcome message with the prices is sent.
WebStart ==
    /\ pc[WEB] = "wb_handle" /\ cmd = "/start"
    /\ outbox' = replied(outbox, "welcome")
    /\ WebDone
    /\ UNCHANGED <<ledger_vars, bot_quiet_until, last_digest_date, last_digest_date_lock, now, env, boot,
                   sched_vars, build_vars, history>>

\* /bignews: the acknowledgement is sent and build_digest entered.
WebBigNews ==
    /\ pc[WEB] = "wb_handle" /\ cmd = "/bignews"
    /\ outbox' = replied(outbox, "fetching")
    /\ Goto(WEB, "bd_prices")
    /\ UNCHANGED <<ledger_vars, bot_quiet_until, last_digest_date, last_digest_date_lock, now, env, boot, cmd,
                   sched_vars, build_vars, history>>

\* send_telegram_message(digest.text, chat_id=chat_id): the result is dropped.
WebSend ==
    /\ pc[WEB] = "wb_send"
    /\ \E ok \in BOOLEAN : success' = [success EXCEPT ![WEB] = ok]
    /\ outbox' = replied(outbox, "digest")
    /\ Goto(WEB, "wb_mark")
    /\ UNCHANGED <<ledger_vars, bot_quiet_until, last_digest_date, last_digest_date_lock, now, env, boot, cmd,
                   sched_vars, idx, prices, news_all, sent_copy, digest, cycle_start,
                   history>>

\* _mark_titles_as_sent(digest.included_titles)
WebMark ==
    /\ pc[WEB] = "wb_mark"
    /\ mark_titles_as_sent(digest[WEB].included_titles)
    /\ WebDone
    /\ DropLocals(WEB)
    /\ UNCHANGED <<bot_quiet_until, last_digest_date, last_digest_date_lock, now, env, boot, outbox, sched_vars,
                   history>>

\* /shutup: set_bot_quiet(6), then the reply.
WebShutup ==
    /\ pc[WEB] = "wb_handle" /\ cmd = "/shutup"
    /\ bot_quiet_until' = set_bot_quiet(QUIET_HOURS, now)
    /\ outbox' = replied(outbox, "quiet")
    /\ WebDone
    /\ UNCHANGED <<ledger_vars, last_digest_date, last_digest_date_lock, now, env, boot, sched_vars, build_vars,
                   history>>

\* Any other text: the "Unknown command" reply.
WebUnknown ==
    /\ pc[WEB] = "wb_handle" /\ cmd \notin {"/start", "/bignews", "/shutup"}
    /\ outbox' = replied(outbox, "unknown")
    /\ WebDone
    /\ UNCHANGED <<ledger_vars, bot_quiet_until, last_digest_date, last_digest_date_lock, now, env, boot,
                   sched_vars, build_vars, history>>

(***************************************************************************)
(* Specifications.                                                         *)
(***************************************************************************)
\* The startup digest of main and the webhook thread with every command, all
\* within one minute of wall-clock time; the scheduler thread stops where it
\* enters main_loop.
Init == InitWith(Feeds(Carriers), InitialFiles, {PROVIDERS})

Next ==
    \/ Main
    \/ SmdQuietCheck
    \/ SmdBranch
    \/ \E t \in Threads : BuildPrices(t)
    \/ \E t \in Threads : BuildFetch(t)
    \/ \E t \in Threads : BuildSnapshot(t)
    \/ \E t \in Threads : BuildRender(t)
    \/ SmdSend
    \/ SmdMark
    \/ WebReceive(Commands)
    \/ WebStart
    \/ WebBigNews
    \/ WebSend
    \/ WebMark
    \/ WebShutup
    \/ WebUnknown

Spec == Init /\ [][Next]_vars

\* The whole scheduler thread, main_loop included, and a webhook thread that
\* receives only /shutup.
InitLoop == InitWith({FeedOf({"cnbc"})}, {MissingFile}, {PROVIDERS})

NextLoop ==
    \/ Tick
    \/ Main
    \/ SmdQuietCheck
    \/ SmdBranch
    \/ BuildPrices(SCHED)
    \/ BuildFetch(SCHED)
    \/ BuildSnapshot(SCHED)
    \/ BuildRender(SCHED)
    \/ SmdSend
    \/ SmdMark
    \/ LoopTop
    \/ LoopAfterDigest
    \/ PnQuietCheck
    \/ PnBranch
    \/ PnFetch
    \/ WebReceive({"/shutup"})
    \/ WebShutup

SpecLoop == InitLoop /\ [][NextLoop]_vars

\* The scheduler thread alone, with exceptions raised in main_loop; the thread
\* keeps being scheduled and its sleeps return.
InitRaise == InitWith({FeedOf({})}, {MissingFile}, {PROVIDERS})

SchedulerRuns ==
    \/ Main
    \/ SmdQuietCheck
    \/ SmdBranch
    \/ BuildPrices(SCHED)
    \/ BuildFetch(SCHED)
    \/ BuildSnapshot(SCHED)
    \/ BuildRender(SCHED)
    \/ SmdSend
    \/ SmdMark
    \/ LoopTop
    \/ LoopAfterDigest
    \/ PnQuietCheck
    \/ PnBranch
    \/ PnFetch
    \/ LoopBackoff

NextRaise ==
    \/ Tick
    \/ LoopRaise
    \/ SchedulerRuns

SpecRaise == InitRaise /\ [][NextRaise]_vars /\ WF_vars(SchedulerRuns)

\* The program started at any time of the first day, with the startup recorded:
\* the scheduler thread with exceptions inside send_morning_digest, the clock,
\* and a webhook thread that receives only /shutup.
InitDay == InitState({FeedOf({})}, {MissingFile}, {PROVIDERS}, {NoCall}, DayInstants, TRUE)

SchedulerDay ==
    \/ Main
    \/ SmdQuietCheck
    \/ SmdBranch
    \/ BuildPrices(SCHED)
    \/ BuildFetch(SCHED)
    \/ BuildSnapshot(SCHED)
    \/ BuildRender(SCHED)
    \/ SmdSend
    \/ SmdMark
    \/ SmdRaise
    \/ LoopTop
    \/ LoopAfterDigest
    \/ PnQuietCheck
    \/ PnBranch
    \/ PnFetch

NextDay ==
    \/ Tick
    \/ SchedulerDay
    \/ WebReceive({"/shutup"})
    \/ WebShutup

SpecDay == InitDay /\ [][NextDay]_vars /\ WF_vars(SchedulerDay)

\* The webhook thread alone with every command, its replies recorded, while
\* the clock runs.
InitWeb ==
    InitState({FeedOf({"cnbc"})}, InitialFiles, {PROVIDERS}, {NoCall}, {FirstInstant}, TRUE)

NextWeb ==
    \/ Tick
    \/ WebReceive(Commands)
    \/ WebStart
    \/ WebBigNews
    \/ BuildPrices(WEB)
    \/ BuildFetch(WEB)
    \/ BuildSnapshot(WEB)
    \/ BuildRender(WEB)
    \/ WebSend
    \/ WebMark
    \/ WebShutup
    \/ WebUnknown

SpecWeb == InitWeb /\ [][NextWeb]_vars

\* Both threads within the minute of the daily trigger: the daily digest, the
\* polls up to the hourly fetch, /bignews and /shutup, failed sends and failed
\* writes.
InitAll ==
    InitState({FeedOf({"cnbc"})}, {ListFile(<<TitleCoin>>)}, {PROVIDERS}, {NoCall},
              {DIGEST_HOUR * MINUTES_PER_HOUR}, FALSE)

NextAll ==
    \/ Main
    \/ SmdQuietCheck
    \/ SmdBranch
    \/ BuildPrices(SCHED)
    \/ BuildFetch(SCHED)
    \/ BuildSnapshot(SCHED)
    \/ BuildRender(SCHED)
    \/ SmdSend
    \/ SmdMark
    \/ LoopTop
    \/ LoopAfterDigest
    \/ PnQuietCheck
    \/ PnBranch
    \/ PnFetch
    \/ WebReceive({"/bignews", "/shutup"})
    \/ WebBigNews
    \/ BuildPrices(WEB)
    \/ BuildFetch(WEB)
    \/ BuildSnapshot(WEB)
    \/ BuildRender(WEB)
    \/ WebSend
    \/ WebMark
    \/ WebShutup

SpecAll == InitAll /\ [][NextAll]_vars

\* The calls of _mark_titles_as_sent by the two threads at once: the titles of
\* each, and the ledger before them.
MarkTitles ==
    {<< >>, <<TitleDeal>>, <<TitleCoin>>, <<TitleDeal, TitleCoin>>, <<TitleMajor>>}

MarkCalls ==
    {[fn |-> "_mark_titles_as_sent",
      args |-> [titles |-> titles, prior |-> prior],
      result |-> << >>] :
        titles \in [Threads -> MarkTitles], prior \in {{}, {TitleCoin}}}

\* _mark_titles_as_sent run by the scheduler thread and by the webhook thread
\* at once, with writes that succeed.
InitMark ==
    /\ InitCalls({FeedOf({})}, InitialFiles, {PROVIDERS}, MarkCalls)
    /\ call.args.prior = sent_headlines

NextMark ==
    \E t \in Threads :
        \/ MarkCall(t)
        \/ MarkAcquire(t)
        \/ MarkAdd(t)
        \/ MarkOpen(t, {"ok"})
        \/ MarkDump(t, {"ok"})
        \/ MarkRelease(t)

SpecMark == InitMark /\ [][NextMark]_vars

\* The program started on any ledger file: load_sent_headlines at import, then
\* the startup digest of the scheduler thread.
InitLoad == InitWith({FeedOf({"igaming"})}, Documents, {PROVIDERS})

NextLoad ==
    \/ Main
    \/ SmdQuietCheck
    \/ SmdBranch
    \/ BuildPrices(SCHED)
    \/ BuildFetch(SCHED)
    \/ BuildSnapshot(SCHED)
    \/ BuildRender(SCHED)
    \/ SmdSend
    \/ SmdMark

SpecLoad == InitLoad /\ [][NextLoad]_vars

\* The startup digest over feeds with Markdown in their titles and over price
\* providers that answer or fail.
InitDigest == InitWith(DigestFeeds, InitialFiles, DigestQuotes)

NextDigest ==
    \/ Main
    \/ SmdQuietCheck
    \/ SmdBranch
    \/ BuildPrices(SCHED)
    \/ BuildFetch(SCHED)
    \/ BuildSnapshot(SCHED)
    \/ BuildRender(SCHED)
    \/ SmdSend
    \/ SmdMark

SpecDigest == InitDigest /\ [][NextDigest]_vars

\* send_telegram_message called on its own.
InitSend == InitCalls({FeedOf({})}, {MissingFile}, {PROVIDERS}, SendCalls)

SendTelegramMessage ==
    /\ call.fn = "send_telegram_message"
    /\ call.result = << >>
    /\ call' = [call EXCEPT !.result =
                   <<send_telegram_message(call.args.message, call.args.max_len,
                                           call.args.answers)>>]
    /\ UNCHANGED program_vars

NextSend == SendTelegramMessage

SpecSend == InitSend /\ [][NextSend]_vars

\* One adapter called on its own, with mark_sent=False.
InitAdapter == InitCalls({FeedOf({})}, {MissingFile}, {PROVIDERS}, AdapterCalls)

GetNews ==
    /\ call.fn \in Range(ADAPTERS)
    /\ call.result = << >>
    /\ call' = [call EXCEPT !.result =
                   <<run_adapter(call.fn, call.args.pages, call.args.status,
                                 call.args.ledger)>>]
    /\ UNCHANGED program_vars

NextAdapter == GetNews

SpecAdapter == InitAdapter /\ [][NextAdapter]_vars

\* chunk_message called on its own.
InitChunk == InitCalls({FeedOf({})}, {MissingFile}, {PROVIDERS}, ChunkCalls)

ChunkMessage ==
    /\ call.fn = "chunk_message"
    /\ call.result = << >>
    /\ call' = [call EXCEPT !.result = <<chunk_message(call.args.text, call.args.max_len)>>]
    /\ UNCHANGED program_vars

NextChunk == ChunkMessage

SpecChunk == InitChunk /\ [][NextChunk]_vars

(***************************************************************************)
(* Properties.                                                             *)
(***************************************************************************)
\* The step is taken by thread t.
StepOf(t) ==
    \/ pc'[t] # pc[t]
    \/ idx'[t] # idx[t]
    \/ (t = SCHED /\ hourly_counter' # hourly_counter)

\* Where a thread is while it runs build_digest, and once it holds the Digest.
BuildPcs == {"bd_prices", "bd_fetch", "bd_snap", "bd_render"}

BuiltPcs == {"smd_send", "smd_mark", "wb_send", "wb_mark"}

\* Where the scheduler thread is while it runs send_morning_digest and post_news.
SmdPcs == {"smd_quiet", "smd_branch", "smd_send", "smd_mark"} \cup BuildPcs

PnPcs == {"pn_quiet", "pn_branch", "pn_fetch"}

\* C1: on every path that sends a digest (send_morning_digest and /bignews), the
\* send step changes neither sent_headlines nor the file, and when the send
\* reported failure the step that follows it changes neither of them.
C1_FailedSendLeavesLedger ==
    [][\A t \in Threads :
          /\ (pc[t] \in {"smd_send", "wb_send"} /\ StepOf(t)) => UNCHANGED ledger_vars
          /\ (pc[t] \in {"smd_mark", "wb_mark"} /\ StepOf(t) /\ ~success[t])
                => UNCHANGED ledger_vars]_vars

\* C2: in a run of send_morning_digest only the step after a successful send
\* changes the ledger; it adds exactly the included_titles of the digest built
\* in this run, writes the file with that ledger unless the write fails, and ends the run
\* (so a run marks at most once); no step of build_digest changes the ledger.
C2_MarkOnceAfterSuccess ==
    [][(pc[SCHED] \in SmdPcs /\ StepOf(SCHED)) =>
          /\ pc[SCHED] = "smd_mark" =>
                /\ success[SCHED]
                /\ sent_headlines' = sent_headlines \cup Range(digest[SCHED].included_titles)
                /\ file' \notin {file, InvalidFile} =>
                      load_sent_headlines(file') = sent_headlines'
                /\ pc'[SCHED] \notin SmdPcs
          /\ pc[SCHED] # "smd_mark" => UNCHANGED ledger_vars
          /\ success'[SCHED] => (pc[SCHED] = "smd_send" /\ pc'[SCHED] = "smd_mark")]_vars

\* A daily run of send_morning_digest has returned after marking both stories.
C2_Witness ==
    /\ pc[SCHED] = "loop_after_digest"
    /\ sent_headlines = {TitleDeal, TitleCoin}
    /\ file = ListFile(<<TitleCoin, TitleDeal>>)

\* C3: once build_digest has returned, no title that was in the ledger when the
\* snapshot sent_copy was taken is in included_titles or on a line of a section,
\* whatever the adapters returned.
C3_NoLedgerTitleInDigest ==
    \A t \in Threads :
        pc[t] \in BuiltPcs =>
            /\ Range(digest[t].included_titles) \cap sent_copy[t] = {}
            /\ \A k \in DOMAIN digest[t].text.sections :
                  \A i \in DOMAIN digest[t].text.sections[k].lines :
                      \A x \in sent_copy[t] :
                          digest[t].text.sections[k].lines[i].title # md_escape(x)

\* A digest was built although an adapter had returned an item whose title was
\* in the ledger when the snapshot was taken.
C3_Witness ==
    \E t \in Threads :
        /\ pc[t] \in BuiltPcs
        /\ \E a \in Range(ADAPTERS) :
              \E i \in DOMAIN news_all[t][a] : news_all[t][a][i].title \in sent_copy[t]

\* C4: within one build_digest cycle the ledger used for exclusion is the one of
\* the cycle's start: every adapter filters against it and the Digest is the
\* adapters' results filtered against it, whatever was marked meanwhile.
C4_SnapshotFixedAtCycleStart ==
    [][\A t \in Threads :
          /\ (pc[t] = "bd_fetch" /\ StepOf(t)) =>
                \E status \in StatusChoices(ADAPTERS[idx[t]]) :
                    news_all'[t][ADAPTERS[idx[t]]] =
                        run_adapter(ADAPTERS[idx[t]], feed[ADAPTERS[idx[t]]], status,
                                    cycle_start[t])
          /\ (pc[t] = "bd_render" /\ StepOf(t)) =>
                digest'[t] = render_digest(prices[t], news_all[t], cycle_start[t])]_vars

\* C5: the daily trigger of main_loop dispatches send_morning_digest at most
\* once per date, and after any poll that reads the trigger time exactly one
\* dispatch has been made for that date: the first such poll dispatches, and a
\* poll that finds _last_digest_date equal to the date dispatches nothing.
C5_OneDispatchPerDay ==
    [][/\ \A d \in Days :
             /\ daily_dispatches'[d] <= 1
             /\ trigger_polls'[d] >= 1 => daily_dispatches'[d] = 1
       /\ (pc[SCHED] = "loop_top" /\ StepOf(SCHED) /\ should_send_morning_digest(now)) =>
             /\ daily_dispatches'[DateOf(now)] = 1
             /\ last_digest_date = Some(DateOf(now)) =>
                   /\ UNCHANGED daily_dispatches
                   /\ pc'[SCHED] # "smd_quiet"]_vars

\* More than one poll has read the trigger time on the same date, and one
\* dispatch was made for it.
C5_Witness ==
    /\ pc[SCHED] = "loop_top"
    /\ should_send_morning_digest(now)
    /\ last_digest_date = Some(DateOf(now))
    /\ trigger_polls[DateOf(now)] = 2
    /\ daily_dispatches[DateOf(now)] = 1

\* C6: a call of is_bot_quiet returns True and leaves bot_quiet_until as it is
\* when now < bot_quiet_until; it returns False and leaves bot_quiet_until None
\* when now >= bot_quiet_until or when no window is set; and only /shutup
\* (set_bot_quiet) sets a window again.
C6_QuietGate ==
    [][/\ (pc[SCHED] \in {"smd_quiet", "pn_quiet"} /\ StepOf(SCHED)) =>
             /\ (bot_quiet_until # None /\ now < bot_quiet_until[1]) =>
                   (quiet_ret' = "L132" /\ bot_quiet_until' = bot_quiet_until)
             /\ (bot_quiet_until # None /\ now >= bot_quiet_until[1]) =>
                   (quiet_ret' \in {"L128", "L131"} /\ bot_quiet_until' = None)
             /\ bot_quiet_until = None =>
                   (quiet_ret' \in {"L128", "L131"} /\ bot_quiet_until' = None)
       /\ (bot_quiet_until = None /\ bot_quiet_until' # None) =>
             (StepOf(WEB) /\ pc[WEB] = "wb_handle" /\ cmd = "/shutup")]_vars

\* is_bot_quiet has just found the window expired and cleared it.
C6_Witness ==
    /\ pc[SCHED] \in {"smd_branch", "pn_branch"}
    /\ quiet_ret = "L131"
    /\ bot_quiet_until = None

\* C7: the scheduler enters the startup digest, the daily digest and the hourly
\* post_news at their is_bot_quiet call; when that call returned True the path
\* returns at once with the ledger, the file and every local of the fetch and
\* send untouched; and a fetch is only ever started from a call that returned
\* False.
C7_QuietGateFirst ==
    [][StepOf(SCHED) =>
          /\ (job' # job /\ job' # "") => pc'[SCHED] \in {"smd_quiet", "pn_quiet"}
          /\ (pc[SCHED] \in {"smd_branch", "pn_branch"} /\ quiet_ret = "L132") =>
                /\ pc'[SCHED] \in {"loop_top", "loop_after_digest"}
                /\ UNCHANGED <<ledger_vars, build_vars>>
          /\ (pc'[SCHED] \in {"bd_prices", "pn_fetch"} /\ pc'[SCHED] # pc[SCHED]) =>
                /\ pc[SCHED] \in {"smd_branch", "pn_branch"}
                /\ quiet_ret \in {"L128", "L131"}]_vars

\* The hourly post_news has called is_bot_quiet, which returned True.
C7_Witness ==
    /\ pc[SCHED] = "pn_branch"
    /\ quiet_ret = "L132"
    /\ bot_quiet_until # None

\* C8: while the webhook thread handles /bignews no step of it changes
\* bot_quiet_until, the handler goes on to build, to send and to mark whatever
\* bot_quiet_until is, and the step that ends it leaves every title of the
\* digest's included_titles in sent_headlines.
C8_BigNewsBypassesQuiet ==
    [][(cmd = "/bignews" /\ StepOf(WEB)) =>
          /\ UNCHANGED bot_quiet_until
          /\ pc[WEB] = "wb_handle" => pc'[WEB] = "bd_prices"
          /\ pc[WEB] = "bd_render" => pc'[WEB] = "wb_send"
          /\ pc[WEB] = "wb_send" => pc'[WEB] = "wb_mark"
          /\ pc[WEB] = "wb_mark" =>
                /\ pc'[WEB] = "idle"
                /\ Range(digest[WEB].included_titles) \subseteq sent_headlines']_vars

\* /bignews has built and sent a digest with titles in it while a quiet window
\* set by an earlier /shutup is active.
C8_Witness ==
    /\ pc[WEB] = "wb_mark"
    /\ cmd = "/bignews"
    /\ bot_quiet_until # None
    /\ now < bot_quiet_until[1]
    /\ digest[WEB].included_titles # << >>

\* C9: no step of a post_news run changes sent_headlines or the file.
C9_PostNewsLeavesLedger ==
    [][(pc[SCHED] \in PnPcs /\ StepOf(SCHED)) => UNCHANGED ledger_vars]_vars

\* post_news has fetched seven adapters, one of which returned items, and the
\* ledger is still empty and the file still absent.
C9_Witness ==
    /\ pc[SCHED] = "pn_fetch"
    /\ idx[SCHED] = Len(ADAPTERS)
    /\ news_all[SCHED]["cnbc"] # << >>
    /\ sent_headlines = {}
    /\ file = MissingFile

\* C10: no step of build_digest, on either thread, changes sent_headlines, the
\* file, bot_quiet_until or _last_digest_date; and two builds that hold the same
\* prices, the same adapter results and the same ledger snapshot hold the same
\* Digest.
C10_BuildDigestPure ==
    [][/\ \A t \in Threads :
             (pc[t] \in BuildPcs /\ StepOf(t)) =>
                 UNCHANGED <<ledger_vars, bot_quiet_until, last_digest_date>>
       /\ ( /\ pc'[SCHED] \in BuiltPcs
            /\ pc'[WEB] \in BuiltPcs
            /\ prices'[SCHED] = prices'[WEB]
            /\ news_all'[SCHED] = news_all'[WEB]
            /\ sent_copy'[SCHED] = sent_copy'[WEB] ) => digest'[SCHED] = digest'[WEB]]_vars

\* Both threads hold a Digest with titles in it, built from the same adapter
\* results, and the ledger is as it was when the scheduler's build began.
C10_Witness ==
    /\ pc[SCHED] = "smd_send"
    /\ pc[WEB] = "wb_send"
    /\ news_all[SCHED] = news_all[WEB]
    /\ digest[SCHED].included_titles # << >>
    /\ sent_headlines = cycle_start[SCHED]

\* C13: the chunks chunk_message yields, joined in order, are the text, and for
\* a text that is not empty none of them is empty.
C13_ChunksRebuildText ==
    (call.fn = "chunk_message" /\ call.result # << >>) =>
        /\ Concat(call.result[1]) = call.args.text
        /\ call.args.text # << >> =>
              \A i \in DOMAIN call.result[1] : call.result[1][i] # << >>

\* A text with a "\r\n" boundary in it was split into more than one chunk.
C13_Witness ==
    /\ call.fn = "chunk_message"
    /\ call.result # << >>
    /\ Len(call.result[1]) >= 2
    /\ \E i \in 1..(Len(call.args.text) - 1) :
          call.args.text[i] = "\r" /\ call.args.text[i + 1] = "\n"

\* C14: for a limit of at least one character, no chunk chunk_message yields is
\* longer than max_len, whatever the text.
C14_ChunksWithinLimit ==
    (call.fn = "chunk_message" /\ call.result # << >> /\ call.args.max_len >= 1) =>
        \A i \in DOMAIN call.result[1] : Len(call.result[1][i]) <= call.args.max_len

\* C11: whenever a mark operation's write succeeds, the file is a list that
\* holds every title of the in-memory ledger once, in ascending order, whatever
\* the file held before (also when earlier writes had failed).
C11_WrittenFileIsSortedLedger ==
    [][(file' # file /\ file'.kind = "list") =>
          /\ Len(file'.items) = Cardinality(sent_headlines')
          /\ {PyValue(file'.items[i]) : i \in DOMAIN file'.items} = sent_headlines'
          /\ \A i, j \in DOMAIN file'.items :
                i < j => StrLess(PyValue(file'.items[i]), PyValue(file'.items[j]))]_vars

\* A thread is about to mark the titles of its digest while the ledger holds a
\* title that an earlier, failed write left out of the file.
C11_Witness ==
    \E t \in Threads :
        /\ pc[t] \in {"smd_mark", "wb_mark"}
        /\ digest[t].included_titles # << >>
        /\ sent_headlines # {}
        /\ load_sent_headlines(file) # sent_headlines

\* C12: the ledger load_sent_headlines returned at startup is empty unless the
\* file is a JSON list whose elements are all strings.
C12_LoadOnlyStringLists ==
    (pc[SCHED] = "main" /\ sent_headlines # {}) =>
        /\ file.kind = "list"
        /\ \A i \in DOMAIN file.items : file.items[i].type = "string"

\* The sections of a built digest and the titles on their lines, in text order.
SectionsOf(t) == digest[t].text.sections

RenderedTitles(t) ==
    Concat([k \in 1..Len(SectionsOf(t)) |->
               [i \in 1..Len(SectionsOf(t)[k].lines) |-> SectionsOf(t)[k].lines[i].title]])

\* C15: a digest built when every adapter returned nothing has the eight
\* sections in their fixed order, each with the placeholder and no line, and
\* no included title; when every price fetch failed each price reads N/A.
C15_EmptyDigest ==
    \A t \in Threads :
        (pc[t] \in BuiltPcs /\ news_all[t] = NoNews) =>
            /\ Len(SectionsOf(t)) = Len(SECTIONS)
            /\ \A k \in 1..Len(SECTIONS) :
                  /\ SectionsOf(t)[k].header = SECTIONS[k].title
                  /\ SectionsOf(t)[k].placeholder
                  /\ SectionsOf(t)[k].lines = << >>
            /\ [k \in 1..Len(SECTIONS) |-> SECTIONS[k].adapter] =
                  <<"igaming", "crunchbase", "cnbc", "wsj", "medium",
                    "cryptoheadlines", "defiant", "ecuador">>
            /\ digest[t].included_titles = << >>
            /\ quotes = {} =>
                  \A f \in DOMAIN digest[t].text.prices : digest[t].text.prices[f] = "N/A"

\* Every source answered with an error and every price fetch failed.
C15_Witness ==
    /\ pc[SCHED] \in BuiltPcs
    /\ news_all[SCHED] = NoNews
    /\ feed["cnbc"][1] # << >>
    /\ quotes = {}

\* C16: the titles on the lines of a built digest, read in text order, are the
\* Markdown-escaped included_titles, one line per included title.
C16_IncludedTitlesAreRendered ==
    \A t \in Threads :
        pc[t] \in BuiltPcs =>
            RenderedTitles(t) =
                [i \in 1..Len(digest[t].included_titles) |->
                    md_escape(digest[t].included_titles[i])]

\* A digest with lines in the Crunchbase and CNBC sections, an escaped title
\* among them.
C16_Witness ==
    /\ pc[SCHED] \in BuiltPcs
    /\ SectionsOf(SCHED)[2].lines # << >>
    /\ SectionsOf(SCHED)[3].lines # << >>
    /\ \E i \in DOMAIN digest[SCHED].included_titles :
          md_escape(digest[SCHED].included_titles[i]) # digest[SCHED].included_titles[i]

\* A finished call of an adapter.
Returned == call.fn \in Range(ADAPTERS) /\ call.result # << >>

\* The cap each adapter states, for the adapters that state one.
CapOf ==
    [a \in {"igaming", "crunchbase", "wsj", "medium", "cryptoheadlines", "defiant"} |->
        CASE a = "igaming"           -> IGAMING_CAP
          [] a \in {"wsj", "medium"} -> FEED_CAP
          [] OTHER                   -> HTML_CAP]

\* C17: an adapter returns at most its cap of items.
C17_AtMostCap ==
    (Returned /\ call.fn \in DOMAIN CapOf) => Len(call.result[1]) <= CapOf[call.fn]

\* The keyword set of each adapter that has one.
KeywordsOf ==
    [a \in Range(ADAPTERS) \ {"cnbc"} |->
        CASE a = "igaming" -> important_keywords
          [] a = "ecuador" -> ecuador_keywords
          [] OTHER         -> keywords]

\* C18: every item an adapter with a keyword set returns has a title that is
\* not in the ledger and that, lower-cased, contains one of its keywords.
C18_BothGates ==
    (Returned /\ call.fn \in DOMAIN KeywordsOf) =>
        \A i \in DOMAIN call.result[1] :
            /\ call.result[1][i].title \notin call.args.ledger
            /\ any_keyword(lower(call.result[1][i].title), KeywordsOf[call.fn])

\* C19: every item an adapter returns has a non-empty title and a non-empty url.
C19_TitleAndUrl ==
    Returned =>
        \A i \in DOMAIN call.result[1] :
            call.result[1][i].title # << >> /\ call.result[1][i].url # << >>

\* C20: main_loop never ends: the scheduler thread is at the top of an iteration
\* again and again, an exception caught by the handler leads to the next
\* iteration, and in the handler and at the top of every iteration
\* _last_digest_date_lock is free.
C20_LoopSurvivesExceptions ==
    /\ []<>(pc[SCHED] = "loop_top")
    /\ (pc[SCHED] = "loop_except") ~> (pc[SCHED] = "loop_top")
    /\ [](pc[SCHED] \in {"loop_except", "loop_top"} => last_digest_date_lock = None)

\* The handler runs after an exception in the daily digest: the digest was
\* dispatched under the lock and its date was never recorded.
C20_Witness ==
    /\ pc[SCHED] = "loop_except"
    /\ daily_dispatches[DateOf(now)] >= 1
    /\ last_digest_date = None
    /\ last_digest_date_lock = None

\* C21: main dispatches the startup digest exactly when the clock is outside
\* 09:00..09:04, and the daily trigger never dispatches within the guard's five
\* minutes of a startup digest.
C21_StartupGuard ==
    [][/\ (pc[SCHED] = "main" /\ pc'[SCHED] # "main") =>
             ((job' = "startup") <=>
                 ~(HourOf(now) = DIGEST_HOUR /\ MinuteOf(now) < STARTUP_GUARD_MINUTES))
       /\ (job # "daily" /\ job' = "daily" /\ boot.startup = "dispatched") =>
             now - boot.at[1] > STARTUP_GUARD_MINUTES]_vars

\* C22: a step of the webhook thread changes the ledger or its file only while
\* /bignews is handled, and bot_quiet_until only while /shutup is handled, to six
\* hours after the clock; a text that is no command is answered with the one
\* "Unknown command" reply and the handler ends without a digest.
C22_CommandFrames ==
    [][StepOf(WEB) =>
          /\ <<sent_headlines, file>>' # <<sent_headlines, file>> => cmd = "/bignews"
          /\ bot_quiet_until' # bot_quiet_until =>
                /\ cmd = "/shutup"
                /\ bot_quiet_until' = Some(now + QUIET_HOURS * MINUTES_PER_HOUR)
          /\ (pc[WEB] = "wb_handle" /\ cmd \notin {"/start", "/bignews", "/shutup"}) =>
                /\ outbox' = Some(<<"unknown">>)
                /\ pc'[WEB] = "idle"
                /\ digest' = digest]_vars

\* Every command has been handled at least once: the ledger holds a title that
\* /bignews marked, the quiet window is set, and a text that is no command has
\* just been answered.
C22_Witness ==
    /\ pc[WEB] = "idle"
    /\ outbox = Some(<<"unknown">>)
    /\ bot_quiet_until # None
    /\ sent_headlines # load_sent_headlines(MissingFile)
    /\ file.kind = "list"

\* C23: send_telegram_message posts every chunk of the message, in order, and
\* returns true exactly when every post was answered with 200.
C23_SendReportsEveryChunk ==
    (call.fn = "send_telegram_message" /\ call.result # << >>) =>
        LET chunks == chunk_message(call.args.message, call.args.max_len) IN
        /\ call.result[1].posted = chunks
        /\ call.result[1].ok <=> \A i \in DOMAIN chunks : call.args.answers[i] = "200"

\* A message of several chunks whose first post fails and whose later posts
\* succeed.
C23_Witness ==
    /\ call.fn = "send_telegram_message"
    /\ call.result # << >>
    /\ Len(call.result[1].posted) >= 2
    /\ call.args.answers[1] = "raise"
    /\ \A i \in DOMAIN call.result[1].posted : i > 1 => call.args.answers[i] = "200"
    /\ ~call.result[1].ok

\* C24: no step removes a title from sent_headlines.
C24_LedgerOnlyGrows == [][sent_headlines \subseteq sent_headlines']_vars

\* The ledger has grown past what was loaded although the write failed.
C24_Witness ==
    /\ TitleCoin \in sent_headlines
    /\ TitleDeal \in sent_headlines
    /\ file.kind # "list"

\* Thread t is inside the with block of _mark_titles_as_sent.
InMark(t) == pc[t] \in {"mk_add", "mk_open", "mk_dump", "mk_release"}

TriggerTime(d) == d * MINUTES_PER_DAY + DIGEST_HOUR * MINUTES_PER_HOUR + DIGEST_MINUTE

\* C26: on a day whose trigger minute main_loop has run through, having been
\* entered before it, the daily trigger has dispatched.
C26_TriggerNeverMissed ==
    \A d \in Days :
        ( /\ boot.loop_at # None
          /\ boot.loop_at[1] < TriggerTime(d)
          /\ now > TriggerTime(d) ) => daily_dispatches[d] >= 1

\* C27: send_morning_digest delivers no digest while a quiet window is active.
C27_NoDeliveryWhileQuiet ==
    [][(pc[SCHED] = "smd_send" /\ success'[SCHED]) =>
          ~(bot_quiet_until # None /\ now < bot_quiet_until[1])]_vars

\* C28: however send_morning_digest ends after the daily trigger fired, main_loop
\* goes on to record the day of the trigger in _last_digest_date, and the trigger
\* never fires on a day already recorded.
C28_DayRecordedWhateverOutcome ==
    [][/\ (job = "daily" /\ pc[SCHED] \in SmdPcs /\ pc'[SCHED] \notin SmdPcs) =>
             /\ pc'[SCHED] = "loop_after_digest"
             /\ today_str' = today_str
       /\ (pc[SCHED] = "loop_after_digest" /\ pc'[SCHED] # "loop_after_digest") =>
             /\ today_str # None
             /\ daily_dispatches[today_str[1]] >= 1
             /\ last_digest_date' = today_str
       /\ (job # "daily" /\ job' = "daily") =>
             last_digest_date # Some(DateOf(now))]_vars

\* The day was recorded by the only dispatch of the day, and a quiet window
\* engaged since has expired without a further attempt.
C28_Witness ==
    /\ pc[SCHED] = "loop_top"
    /\ last_digest_date = Some(DateOf(now))
    /\ daily_dispatches[DateOf(now)] = 1
    /\ trigger_polls[DateOf(now)] >= 1
    /\ bot_quiet_until # None
    /\ now >= bot_quiet_until[1]

\* C29: when main skips the startup digest, the daily trigger dispatches a digest
\* on the day of the start.
C29_SkippedStartupGetsDaily ==
    \A d \in Days :
        (boot.startup = "skipped" /\ DateOf(boot.at[1]) = d) ~> (daily_dispatches[d] >= 1)

\* C30: no title appears twice in the included_titles of a built digest.
C30_NoTitleTwice ==
    \A t \in Threads :
        pc[t] \in BuiltPcs =>
            \A i, j \in DOMAIN digest[t].included_titles :
                i # j => digest[t].included_titles[i] # digest[t].included_titles[j]

====
